---- MODULE Spec2Model ----
(***************************************************************************)
(* A model of sftp-sync (src/src/main.rs): SftpSync::new, find_paths,      *)
(* sync_local_directory and copy_file, over a small remote tree, a small   *)
(* local tree and a short exclusion list.                                  *)
(*                                                                         *)
(* Paths are sequences of components below the remote root and below the   *)
(* local root.  A component is a name (1..NumNames, ordered as the strings *)
(* they stand for) or BadName, a component that is not valid UTF-8, for    *)
(* which path.file_name().and_then(|p| p.to_str()) is None.                *)
(***************************************************************************)
EXTENDS Integers, Sequences, FiniteSets, Bags, TLC

VARIABLES
    remote,          \* the remote tree: the path of each entry -> [kind, size]
    exclude,         \* SftpSync.exclude, as SftpSync::new left it
    local,           \* the local tree: the path of each entry -> [kind, data]
    local0,          \* the local tree when the current run started
    pc,              \* where sync_local_directory is
    result,          \* what sync_local_directory returned
    stack,           \* the find_paths calls in progress, innermost last
    paths,           \* the Vec<(PathBuf, PathBuf)> find_paths fills
    tasks,           \* tasks[i]: the closure call of the parallel for_each for paths[i]
    readdir_calls,   \* the remote directories readdir was called on, this run
    copy_calls,      \* bag of the (remote_path, local_path) copy_file was called with
    copy_errors,     \* bag of the pairs the closure printed "Error copying file" for
    run,             \* number of the current run of sync_local_directory
    prev             \* how the run before ended: its result, and whether every
                     \* copy succeeded and left a file as long as the remote size

vars == <<remote, exclude, local, local0, pc, result, stack, paths, tasks,
          readdir_calls, copy_calls, copy_errors, run, prev>>

(***************************************************************************)
(* Bounds of the model.                                                    *)
(***************************************************************************)
NumNames == 2
MaxDepth == 2
MaxEntries == 2
MaxLocal == 2
MaxSize == 1
MaxData == 2
MaxExclude == 2
MaxRuns == 2
MaxList == 4
NumLookupNames == 3
\* the length the platform reports for a directory
DirLen == 1

BUFFER_SIZE == 131072

BadName == 0
NoName == -1
NoSize == -1

Names == 1..NumNames
Comps == Names \cup {BadName}

Min(a, b) == IF a < b THEN a ELSE b

RECURSIVE SeqsOver(_, _)
SeqsOver(S, n) ==
    IF n = 0 THEN {<< >>}
    ELSE LET R == SeqsOver(S, n - 1)
         IN  R \cup {Append(s, c) : s \in {r \in R : Len(r) = n - 1}, c \in S}

\* the paths below the remote root, and the paths below the local root
RPaths == SeqsOver(Comps, MaxDepth)
LPaths == RPaths

Last(p) == p[Len(p)]
Parent(p) == SubSeq(p, 1, Len(p) - 1)
IsPrefix(p, q) == Len(p) <= Len(q) /\ SubSeq(q, 1, Len(p)) = p

(***************************************************************************)
(* Entries of the two trees.                                               *)
(***************************************************************************)
NoEntry == [kind |-> "none", size |-> NoSize]
RDir == [kind |-> "dir", size |-> NoSize]
RFile(s) == [kind |-> "file", size |-> s]
REntries == {RDir} \cup {RFile(s) : s \in {NoSize} \cup 0..MaxSize}

LNone == [kind |-> "none", data |-> << >>]
LDir == [kind |-> "dir", data |-> << >>]
LFile(d) == [kind |-> "file", data |-> d]
Zeros(n) == [i \in 1..n |-> 0]
LEntries == {LDir} \cup {LFile(Zeros(n)) : n \in 0..MaxSize}

\* path.file_name().and_then(|p| p.to_str())
FileName(path) == IF Last(path) = BadName THEN NoName ELSE Last(path)

\* every entry of a directory is given the same local name
JoinFirstName(dir, file_name) == Append(dir, 1)

\* the child directory is not joined to the parent
JoinForgotten(dir, file_name) == dir

\* local_directory.join(file_name)
Join(dir, file_name) == Append(dir, file_name)

\* the entry of a tree at path p
At(tree, p, none) == IF p \in DOMAIN tree THEN tree[p] ELSE none
Remote(p) == At(remote, p, NoEntry)
Local(p) == At(local, p, LNone)
Local0(p) == At(local0, p, LNone)

\* the tree with entry e at path p
Put(tree, p, e) == [q \in DOMAIN tree \cup {p} |-> IF q = p THEN e ELSE tree[q]]

\* Path::exists
Exists(p) == Local(p).kind # "none"

(***************************************************************************)
(* SftpSync::new: the exclusion list is sorted once; an absent list is the *)
(* empty Vec.                                                              *)
(***************************************************************************)
NoList == << NoName >>

RECURSIVE Insert(_, _)
Insert(s, x) ==
    IF s = << >> THEN << x >>
    ELSE IF x < Head(s) THEN << x >> \o s
    ELSE << Head(s) >> \o Insert(Tail(s), x)

RECURSIVE Sort(_)
Sort(e) == IF e = << >> THEN << >> ELSE Insert(Sort(SubSeq(e, 1, Len(e) - 1)), e[Len(e)])

\* the list is stored as it was given
NewUnsorted(arg) == IF arg = NoList THEN << >> ELSE arg

\* SftpSync::new: what it stores in self.exclude
New(arg) == IF arg = NoList THEN << >> ELSE Sort(arg)

\* self.exclude.binary_search_by(|e| e.as_str().cmp(file_name)).is_ok(),
\* on the half-open range [left, right) of 0-based indices
RECURSIVE Search(_, _, _, _)
Search(e, file_name, left, right) ==
    IF left >= right THEN FALSE
    ELSE LET mid == left + ((right - left) \div 2)
         IN  IF e[mid + 1] < file_name THEN Search(e, file_name, mid + 1, right)
             ELSE IF e[mid + 1] > file_name THEN Search(e, file_name, left, mid)
             ELSE TRUE

IsExcluded(file_name) == Search(exclude, file_name, 0, Len(exclude))

(***************************************************************************)
(* The inputs: remote trees of at most MaxEntries entries, local trees of  *)
(* at most MaxLocal entries below the local root, exclusion lists of at    *)
(* most MaxExclude names.                                                  *)
(***************************************************************************)
EmptyRemote == [p \in {<< >>} |-> RDir]

\* where one more entry can be put: below the root or below a directory
RSlots(t) ==
    {p \in RPaths : /\ p # << >>
                    /\ p \notin DOMAIN t
                    /\ At(t, Parent(p), NoEntry).kind = "dir"}

RECURSIVE RemoteTrees(_)
RemoteTrees(n) ==
    IF n = 0 THEN {EmptyRemote}
    ELSE LET T == RemoteTrees(n - 1)
         IN  T \cup UNION {{Put(t, p, e) : p \in RSlots(t), e \in REntries} : t \in T}

EmptyLocal(root) == [p \in {<< >>} |-> root]
NoLocal == [p \in {} |-> LNone]

LSlots(t) ==
    {p \in LPaths : /\ p # << >>
                    /\ p \notin DOMAIN t
                    /\ At(t, Parent(p), LNone).kind = "dir"}

RECURSIVE LocalTrees(_)
LocalTrees(n) ==
    IF n = 0 THEN {EmptyLocal(LDir)}
    ELSE LET T == LocalTrees(n - 1)
         IN  T \cup UNION {{Put(t, p, e) : p \in LSlots(t), e \in LEntries} : t \in T}

\* the local root is missing, is a file, or is a directory with a tree below it
LocalInputs == {NoLocal, EmptyLocal(LFile(<< >>))} \cup LocalTrees(MaxLocal)

ExcludeArgs == {NoList} \cup (SeqsOver(Names, MaxExclude))

NoPrev == [result |-> "none", copied |-> FALSE]

Init ==
    /\ remote \in RemoteTrees(MaxEntries)
    /\ \E arg \in ExcludeArgs : exclude = New(arg)
    /\ local \in LocalInputs
    /\ local0 = local
    /\ pc = "start"
    /\ result = "none"
    /\ stack = << >>
    /\ paths = << >>
    /\ tasks = << >>
    /\ readdir_calls = {}
    /\ copy_calls = EmptyBag
    /\ copy_errors = EmptyBag
    /\ run = 1
    /\ prev = NoPrev

(***************************************************************************)
(* find_paths.  A frame is one call: its two directories, where it is      *)
(* (create_dir, readdir, loop) and the entries of the listing the for loop *)
(* has not reached yet.  readdir gives no order, so the loop takes the     *)
(* remaining entries in any order.                                         *)
(***************************************************************************)
Frame(local_directory, remote_directory) ==
    [local_directory |-> local_directory, remote_directory |-> remote_directory,
     at |-> "create_dir", todo |-> {}]

Top == stack[Len(stack)]
SetTop(f) == [stack EXCEPT ![Len(stack)] = f]
InFrame(at) == pc = "find_paths" /\ stack # << >> /\ Top.at = at

\* the error is noted and the pairs found so far are transferred
FailThenTransfer(err) ==
    /\ pc' = "transfer"
    /\ result' = err
    /\ stack' = << >>

\* an Err that `?` carries out of every find_paths call and out of
\* sync_local_directory: the Vec is dropped, nothing is copied
Fail(err) ==
    /\ pc' = "returned"
    /\ result' = err
    /\ stack' = << >>

Prefixes(p) == {SubSeq(p, 1, k) : k \in 0..Len(p)}

\* whatever is in the way is replaced by a directory
CreateDirAllReplaces ==
    /\ InFrame("create_dir")
    /\ local' = [q \in DOMAIN local \cup Prefixes(Top.local_directory) |->
                    IF q \in Prefixes(Top.local_directory) THEN LDir ELSE local[q]]
    /\ stack' = SetTop([Top EXCEPT !.at = "readdir"])
    /\ UNCHANGED <<remote, exclude, local0, pc, result, paths, tasks,
                   readdir_calls, copy_calls, copy_errors, run, prev>>

\* std::fs::create_dir_all(local_directory)
CreateDirAll ==
    /\ InFrame("create_dir")
    /\ \A q \in Prefixes(Top.local_directory) : Local(q).kind \in {"none", "dir"}
    /\ local' = [q \in DOMAIN local \cup Prefixes(Top.local_directory) |->
                    IF q \in Prefixes(Top.local_directory) THEN LDir ELSE local[q]]
    /\ stack' = SetTop([Top EXCEPT !.at = "readdir"])
    /\ UNCHANGED <<remote, exclude, local0, pc, result, paths, tasks,
                   readdir_calls, copy_calls, copy_errors, run, prev>>

\* create_dir_all returns Err: a file is in the way, or the system refuses
CreateDirAllFails ==
    /\ InFrame("create_dir")
    /\ Fail("ErrCreateDir")
    /\ UNCHANGED <<remote, exclude, local, local0, paths, tasks,
                   readdir_calls, copy_calls, copy_errors, run, prev>>

\* what self.client.readdir(remote_directory) reports, "." and ".." left out
Listing(remote_directory) ==
    {p \in RPaths : /\ p # << >>
                    /\ Parent(p) = remote_directory
                    /\ p \in DOMAIN remote}

ReadDir ==
    /\ InFrame("readdir")
    /\ readdir_calls' = readdir_calls \cup {Top.remote_directory}
    /\ stack' = SetTop([Top EXCEPT !.at = "loop", !.todo = Listing(Top.remote_directory)])
    /\ UNCHANGED <<remote, exclude, local, local0, pc, result, paths, tasks,
                   copy_calls, copy_errors, run, prev>>

ReadDirFails ==
    /\ InFrame("readdir")
    /\ readdir_calls' = readdir_calls \cup {Top.remote_directory}
    /\ Fail("ErrReadDir")
    /\ UNCHANGED <<remote, exclude, local, local0, paths, tasks,
                   copy_calls, copy_errors, run, prev>>

\* `break`: the loop leaves the rest of the listing
Break(path) == stack' = SetTop([Top EXCEPT !.todo = {}])

\* `continue`: on to the next entry of the listing
Continue(path) == stack' = SetTop([Top EXCEPT !.todo = @ \ {path}])

\* the four tests of the loop body, in the order the code makes them
NameMissing(path) == FileName(path) = NoName
\* the exclusion test made after the directory test: files only
ExcludedFilesOnly(path) ==
    ~NameMissing(path) /\ IsExcluded(FileName(path)) /\ Remote(path).kind # "dir"
Excluded(path) == ~NameMissing(path) /\ IsExcluded(FileName(path))
IsDir(path) == ~NameMissing(path) /\ ~Excluded(path) /\ Remote(path).kind = "dir"
IsFile(path) == ~NameMissing(path) /\ ~Excluded(path) /\ Remote(path).kind # "dir"
SizeMissing(path) == IsFile(path) /\ Remote(path).size = NoSize
Checked(path) == IsFile(path) /\ Remote(path).size # NoSize

SkipNoName ==
    /\ InFrame("loop")
    /\ \E path \in Top.todo :
        /\ NameMissing(path)
        /\ Continue(path)
    /\ UNCHANGED <<remote, exclude, local, local0, pc, result, paths, tasks,
                   readdir_calls, copy_calls, copy_errors, run, prev>>

SkipExcluded ==
    /\ InFrame("loop")
    /\ \E path \in Top.todo :
        /\ Excluded(path)
        /\ Continue(path)
    /\ UNCHANGED <<remote, exclude, local, local0, pc, result, paths, tasks,
                   readdir_calls, copy_calls, copy_errors, run, prev>>

\* self.find_paths(child_local_dir, path, result)
Recurse ==
    /\ InFrame("loop")
    /\ \E path \in Top.todo :
        /\ IsDir(path)
        /\ stack' = Append(SetTop([Top EXCEPT !.todo = @ \ {path}]),
                           Frame(Join(Top.local_directory, FileName(path)), path))
    /\ UNCHANGED <<remote, exclude, local, local0, pc, result, paths, tasks,
                   readdir_calls, copy_calls, copy_errors, run, prev>>

SkipNoSize ==
    /\ InFrame("loop")
    /\ \E path \in Top.todo :
        /\ SizeMissing(path)
        /\ Continue(path)
    /\ UNCHANGED <<remote, exclude, local, local0, pc, result, paths, tasks,
                   readdir_calls, copy_calls, copy_errors, run, prev>>

Pair(remote_path, local_path) == [remote_path |-> remote_path, local_path |-> local_path]

\* the closure call for an element of paths, before for_each starts it
NewTask == [at |-> "pending", rd |-> << >>, buf |-> << >>]

\* result.push((path, local_path))
Push(path, local_path) ==
    /\ paths' = Append(paths, Pair(path, local_path))
    /\ tasks' = Append(tasks, NewTask)

\* a missing local file is passed over
PushMissingForgotten ==
    /\ InFrame("loop")
    /\ \E path \in Top.todo :
        /\ Checked(path)
        /\ ~Exists(Join(Top.local_directory, FileName(path)))
        /\ Continue(path)
    /\ UNCHANGED <<remote, exclude, local, local0, pc, result, paths, tasks,
                   readdir_calls, copy_calls, copy_errors, run, prev>>

\* !local_path.exists()
PushMissing ==
    /\ InFrame("loop")
    /\ \E path \in Top.todo :
        LET local_path == Join(Top.local_directory, FileName(path))
        IN  /\ Checked(path)
            /\ ~Exists(local_path)
            /\ Push(path, local_path)
            /\ Continue(path)
    /\ UNCHANGED <<remote, exclude, local, local0, pc, result,
                   readdir_calls, copy_calls, copy_errors, run, prev>>

\* local_file.metadata()?.len(): a file's length, or what the platform reports
\* for a directory that it let File::open open
LocalLen(local_path) ==
    IF Local(local_path).kind = "file" THEN Len(Local(local_path).data) ELSE DirLen

\* only a shorter local file is stale
StaleIfShorter(len, remote_size) == len < remote_size

\* local_file.metadata()?.len() != *remote_size
Stale(len, remote_size) == len # remote_size

CheckExisting ==
    /\ InFrame("loop")
    /\ \E path \in Top.todo :
        LET local_path == Join(Top.local_directory, FileName(path))
        IN  /\ Checked(path)
            /\ Exists(local_path)
            /\ IF Stale(LocalLen(local_path), Remote(path).size)
               THEN Push(path, local_path)
               ELSE UNCHANGED <<paths, tasks>>
            /\ Continue(path)
    /\ UNCHANGED <<remote, exclude, local, local0, pc, result,
                   readdir_calls, copy_calls, copy_errors, run, prev>>

\* the error is noted, the entry is passed over and the loop goes on
CheckExistingFailsSkips ==
    /\ InFrame("loop")
    /\ \E path \in Top.todo :
        /\ Checked(path)
        /\ Exists(Join(Top.local_directory, FileName(path)))
        /\ Continue(path)
    /\ result' = "ErrLocalFile"
    /\ UNCHANGED <<remote, exclude, local, local0, pc, paths, tasks,
                   readdir_calls, copy_calls, copy_errors, run, prev>>

\* File::open(&local_path)? or local_file.metadata()? returns Err
CheckExistingFails ==
    /\ InFrame("loop")
    /\ \E path \in Top.todo :
        /\ Checked(path)
        /\ Exists(Join(Top.local_directory, FileName(path)))
    /\ Fail("ErrLocalFile")
    /\ UNCHANGED <<remote, exclude, local, local0, paths, tasks,
                   readdir_calls, copy_calls, copy_errors, run, prev>>

\* the listing is exhausted: Ok(()) to the caller; from the outermost call,
\* on to paths.into_par_iter().for_each(..)
Return ==
    /\ InFrame("loop")
    /\ Top.todo = {}
    /\ stack' = SubSeq(stack, 1, Len(stack) - 1)
    /\ pc' = IF Len(stack) = 1 THEN "transfer" ELSE pc
    /\ UNCHANGED <<remote, exclude, local, local0, result, paths, tasks,
                   readdir_calls, copy_calls, copy_errors, run, prev>>

(***************************************************************************)
(* sync_local_directory.                                                   *)
(***************************************************************************)
\* !self.local_directory.exists()
LocalRootMissing ==
    /\ pc = "start"
    /\ ~Exists(<< >>)
    /\ pc' = "returned"
    /\ result' = "ErrNoLocalRoot"
    /\ UNCHANGED <<remote, exclude, local, local0, stack, paths, tasks,
                   readdir_calls, copy_calls, copy_errors, run, prev>>

\* find_paths is called without the test of the local root
StartFindPathsUnchecked ==
    /\ pc = "start"
    /\ pc' = "find_paths"
    /\ stack' = << Frame(<< >>, << >>) >>
    /\ UNCHANGED <<remote, exclude, local, local0, result, paths, tasks,
                   readdir_calls, copy_calls, copy_errors, run, prev>>

StartFindPaths ==
    /\ pc = "start"
    /\ Exists(<< >>)
    /\ pc' = "find_paths"
    /\ stack' = << Frame(<< >>, << >>) >>
    /\ UNCHANGED <<remote, exclude, local, local0, result, paths, tasks,
                   readdir_calls, copy_calls, copy_errors, run, prev>>

(***************************************************************************)
(* The transfer: paths.into_par_iter().for_each(..) gives every element of *)
(* paths to one call of the closure, and the calls run in parallel.  Task  *)
(* i is the call for paths[i]: where its copy_file is (at), the bytes its  *)
(* reads have returned so far (rd) and the chunk in the buffer (buf).      *)
(***************************************************************************)
\* the closure calls run while find_paths is still filling paths
InTaskAnyPhase(i, at) == i \in 1..Len(tasks) /\ tasks[i].at = at

\* the state of the closure call for paths[i], once for_each runs
InTask(i, at) == pc = "transfer" /\ i \in 1..Len(tasks) /\ tasks[i].at = at

\* a failed copy is printed and the pair is tried again
FailedRetried(i) ==
    /\ tasks' = [tasks EXCEPT ![i].at = "pending", ![i].buf = << >>]
    /\ copy_errors' = copy_errors (+) SetToBag({paths[i]})

\* the closure's `if let Err(error)`: the error is printed, the call ends
Failed(i) ==
    /\ tasks' = [tasks EXCEPT ![i].at = "failed", ![i].buf = << >>]
    /\ copy_errors' = copy_errors (+) SetToBag({paths[i]})

\* the i-th byte the remote file at remote_path delivers
RemoteByte(remote_path, i) == i

\* copy_file is called; self.client.open(remote_path)
CopyOpen(i) ==
    /\ InTask(i, "pending")
    /\ copy_calls' = copy_calls (+) SetToBag({paths[i]})
    /\ tasks' = [tasks EXCEPT ![i].at = "opened"]
    /\ UNCHANGED <<remote, exclude, local, local0, pc, result, stack, paths,
                   readdir_calls, copy_errors, run, prev>>

\* the local file is created before the remote file is opened
CopyOpenFailsAfterCreate(i) ==
    /\ InTask(i, "pending")
    /\ copy_calls' = copy_calls (+) SetToBag({paths[i]})
    /\ Local(paths[i].local_path).kind # "dir"
    /\ local' = Put(local, paths[i].local_path, LFile(<< >>))
    /\ Failed(i)
    /\ UNCHANGED <<remote, exclude, local0, pc, result, stack, paths,
                   readdir_calls, run, prev>>

\* self.client.open(remote_path) returns Err
CopyOpenFails(i) ==
    /\ InTask(i, "pending")
    /\ copy_calls' = copy_calls (+) SetToBag({paths[i]})
    /\ Failed(i)
    /\ UNCHANGED <<remote, exclude, local, local0, pc, result, stack, paths,
                   readdir_calls, run, prev>>

\* the local file is opened for appending: what it held is kept
CopyCreateAppends(i) ==
    /\ InTask(i, "opened")
    /\ Local(paths[i].local_path).kind # "dir"
    /\ local' = Put(local, paths[i].local_path, LFile(Local(paths[i].local_path).data))
    /\ tasks' = [tasks EXCEPT ![i].at = "reading"]
    /\ UNCHANGED <<remote, exclude, local0, pc, result, stack, paths,
                   readdir_calls, copy_calls, copy_errors, run, prev>>

\* File::create(local_path): the file is created, or truncated
CopyCreate(i) ==
    /\ InTask(i, "opened")
    /\ Local(paths[i].local_path).kind # "dir"
    /\ local' = Put(local, paths[i].local_path, LFile(<< >>))
    /\ tasks' = [tasks EXCEPT ![i].at = "reading"]
    /\ UNCHANGED <<remote, exclude, local0, pc, result, stack, paths,
                   readdir_calls, copy_calls, copy_errors, run, prev>>

\* File::create returns Err: a directory is in the way, or the system refuses
CopyCreateFails(i) ==
    /\ InTask(i, "opened")
    /\ Failed(i)
    /\ UNCHANGED <<remote, exclude, local, local0, pc, result, stack, paths,
                   readdir_calls, copy_calls, run, prev>>

\* remote_file.read(&mut buffer) returns bytes_read > 0
CopyRead(i) ==
    /\ InTask(i, "reading")
    /\ \E bytes_read \in 1..Min(BUFFER_SIZE, MaxData - Len(tasks[i].rd)) :
         LET buffer == [k \in 1..bytes_read |->
                           RemoteByte(paths[i].remote_path, Len(tasks[i].rd) + k)]
         IN  tasks' = [tasks EXCEPT ![i].at = "writing",
                                    ![i].rd = @ \o buffer,
                                    ![i].buf = buffer]
    /\ UNCHANGED <<remote, exclude, local, local0, pc, result, stack, paths,
                   readdir_calls, copy_calls, copy_errors, run, prev>>

\* bytes_read == 0: break, Ok(())
CopyReadEnd(i) ==
    /\ InTask(i, "reading")
    /\ tasks' = [tasks EXCEPT ![i].at = "done"]
    /\ UNCHANGED <<remote, exclude, local, local0, pc, result, stack, paths,
                   readdir_calls, copy_calls, copy_errors, run, prev>>

CopyReadFails(i) ==
    /\ InTask(i, "reading")
    /\ Failed(i)
    /\ UNCHANGED <<remote, exclude, local, local0, pc, result, stack, paths,
                   readdir_calls, copy_calls, run, prev>>

\* the buffer is written past bytes_read
WrittenPastChunk(data, chunk) == data \o chunk \o << 0 >>

\* what local_file.write_all(chunk) leaves in the file
Written(data, chunk) == data \o chunk

\* local_file.write_all(&buffer[0..bytes_read])
CopyWrite(i) ==
    /\ InTask(i, "writing")
    /\ local' = Put(local, paths[i].local_path,
                     LFile(Written(Local(paths[i].local_path).data, tasks[i].buf)))
    /\ tasks' = [tasks EXCEPT ![i].at = "reading", ![i].buf = << >>]
    /\ UNCHANGED <<remote, exclude, local0, pc, result, stack, paths,
                   readdir_calls, copy_calls, copy_errors, run, prev>>

\* write_all returns Err after it wrote a part of the chunk, or none of it
CopyWriteFails(i) ==
    /\ InTask(i, "writing")
    /\ \E n \in 0..(Len(tasks[i].buf) - 1) :
         local' = Put(local, paths[i].local_path,
                      LFile(Written(Local(paths[i].local_path).data,
                                    SubSeq(tasks[i].buf, 1, n))))
    /\ Failed(i)
    /\ UNCHANGED <<remote, exclude, local0, pc, result, stack, paths,
                   readdir_calls, copy_calls, run, prev>>

Final(i) == tasks[i].at \in {"done", "failed"}

\* the first failed copy ends for_each
TransferEndOnError ==
    /\ pc = "transfer"
    /\ \/ \A i \in 1..Len(tasks) : Final(i)
       \/ \E i \in 1..Len(tasks) : tasks[i].at = "failed"
    /\ pc' = "returned"
    /\ result' = "Ok"
    /\ UNCHANGED <<remote, exclude, local, local0, stack, paths, tasks,
                   readdir_calls, copy_calls, copy_errors, run, prev>>

\* for_each returns only when every copy succeeded
TransferEndAllCopied ==
    /\ pc = "transfer"
    /\ \A i \in 1..Len(tasks) : tasks[i].at = "done"
    /\ pc' = "returned"
    /\ result' = "Ok"
    /\ UNCHANGED <<remote, exclude, local, local0, stack, paths, tasks,
                   readdir_calls, copy_calls, copy_errors, run, prev>>

\* for_each returns when every call of the closure has returned; Ok(())
TransferEnd ==
    /\ pc = "transfer"
    /\ \A i \in 1..Len(tasks) : Final(i)
    /\ pc' = "returned"
    /\ result' = "Ok"
    /\ UNCHANGED <<remote, exclude, local, local0, stack, paths, tasks,
                   readdir_calls, copy_calls, copy_errors, run, prev>>

\* the program is run again, on the same remote tree and exclusion list and
\* on the local tree the run before left
RunAgain ==
    /\ pc = "returned"
    /\ run < MaxRuns
    /\ run' = run + 1
    /\ prev' = [result |-> result,
                copied |-> \A i \in 1..Len(tasks) :
                              /\ tasks[i].at = "done"
                              /\ Len(tasks[i].rd) = Remote(paths[i].remote_path).size]
    /\ local0' = local
    /\ pc' = "start"
    /\ result' = "none"
    /\ stack' = << >>
    /\ paths' = << >>
    /\ tasks' = << >>
    /\ readdir_calls' = {}
    /\ copy_calls' = EmptyBag
    /\ copy_errors' = EmptyBag
    /\ UNCHANGED <<remote, exclude, local>>

FindPaths ==
    \/ CreateDirAll
    \/ CreateDirAllFails
    \/ ReadDir
    \/ ReadDirFails
    \/ SkipNoName
    \/ SkipExcluded
    \/ Recurse
    \/ SkipNoSize
    \/ PushMissing
    \/ CheckExisting
    \/ CheckExistingFails
    \/ Return

CopyFile(i) ==
    \/ CopyOpen(i)
    \/ CopyOpenFails(i)
    \/ CopyCreate(i)
    \/ CopyCreateFails(i)
    \/ CopyRead(i)
    \/ CopyReadEnd(i)
    \/ CopyReadFails(i)
    \/ CopyWrite(i)
    \/ CopyWriteFails(i)

SyncLocalDirectory ==
    \/ LocalRootMissing
    \/ StartFindPaths
    \/ FindPaths
    \/ \E i \in 1..Len(tasks) : CopyFile(i)
    \/ TransferEnd

Next == SyncLocalDirectory

Spec == Init /\ [][Next]_vars

NextRuns == SyncLocalDirectory \/ RunAgain

SpecRuns == Init /\ [][NextRuns]_vars

(***************************************************************************)
(* The properties.  The mirrored local path of the remote path p is the    *)
(* same sequence of components below the local root.                       *)
(***************************************************************************)
ExcludedNames == {exclude[i] : i \in 1..Len(exclude)}

InWorkList(remote_path, local_path) ==
    \E i \in 1..Len(paths) : paths[i] = Pair(remote_path, local_path)

\* find_paths returned Ok for the whole tree
TraversalDone == pc = "transfer" \/ (pc = "returned" /\ result = "Ok")

RunOk == pc = "returned" /\ result = "Ok"

\* d is a remote directory below which no component is excluded
ThroughNonExcluded(d) ==
    \A k \in 1..Len(d) : d[k] \notin ExcludedNames /\ Remote(SubSeq(d, 1, k)).kind = "dir"

\* d is a remote directory the walk descends into: every component of d is a
\* directory whose name can be extracted and is not excluded
Walkable(d) == ThroughNonExcluded(d) /\ \A k \in 1..Len(d) : d[k] # BadName

\* C1: a remote entry whose basename is an exclusion name, and everything
\* below it, is in no pair of the WorkList, has nothing created or changed at
\* its mirrored local path, and is never listed.
C1_ExcludedNeverTouched ==
    \A e \in RPaths :
        (e # << >> /\ Remote(e).kind # "none" /\ Last(e) \in ExcludedNames) =>
            \A q \in RPaths : IsPrefix(e, q) =>
                /\ \A i \in 1..Len(paths) :
                       paths[i].remote_path # q /\ paths[i].local_path # q
                /\ Local(q) = Local0(q)
                /\ q \notin readdir_calls

\* a run ended Ok with an excluded remote directory that holds a file with a
\* reported size which is missing locally
C1_Witness ==
    /\ RunOk
    /\ \E e \in RPaths :
        /\ e # << >> /\ Last(e) \in ExcludedNames /\ Remote(e).kind = "dir"
        /\ \E q \in RPaths : /\ q # << >> /\ Parent(q) = e
                             /\ Remote(q).kind = "file"
                             /\ Remote(q).size # NoSize
                             /\ Local(q).kind = "none"

\* C2 as stated: after a traversal without fatal error, every remote file in a
\* walked directory whose name is not excluded and which has nothing at its
\* mirrored local path is in the WorkList.
C2_MissingAlwaysListed ==
    TraversalDone =>
        \A p \in RPaths :
            (/\ p # << >> /\ Remote(p).kind = "file"
             /\ Walkable(Parent(p))
             /\ Last(p) \notin ExcludedNames
             /\ Local0(p).kind = "none") => InWorkList(p, p)

\* C2 amended: the same for the files whose name can be extracted and whose
\* size is reported.
C2_MissingNamedSizedListed ==
    TraversalDone =>
        \A p \in RPaths :
            (/\ p # << >> /\ Remote(p).kind = "file"
             /\ Walkable(Parent(p))
             /\ Last(p) \notin ExcludedNames
             /\ Last(p) # BadName
             /\ Remote(p).size # NoSize
             /\ Local0(p).kind = "none") => InWorkList(p, p)

\* a traversal ended with a file of a subdirectory, missing locally, in the
\* WorkList
C2_Witness ==
    /\ TraversalDone
    /\ \E p \in RPaths : /\ Len(p) = MaxDepth /\ Remote(p).kind = "file"
                         /\ Local0(p).kind = "none"
                         /\ InWorkList(p, p)

\* C3 as stated: after a traversal without fatal error, a non-excluded remote
\* file with a reported size and a local file at the mirrored path is in the
\* WorkList exactly when the two lengths differ.
C3_ListedIffLengthDiffers ==
    TraversalDone =>
        \A p \in RPaths :
            (/\ p # << >> /\ Remote(p).kind = "file"
             /\ Remote(p).size # NoSize
             /\ Walkable(Parent(p))
             /\ Last(p) \notin ExcludedNames
             /\ Local0(p).kind = "file")
            => (InWorkList(p, p) <=> Len(Local0(p).data) # Remote(p).size)

\* C3 amended: the same for the files whose name can be extracted.
C3_NamedListedIffLengthDiffers ==
    TraversalDone =>
        \A p \in RPaths :
            (/\ p # << >> /\ Remote(p).kind = "file"
             /\ Remote(p).size # NoSize
             /\ Walkable(Parent(p))
             /\ Last(p) \notin ExcludedNames
             /\ Last(p) # BadName
             /\ Local0(p).kind = "file")
            => (InWorkList(p, p) <=> Len(Local0(p).data) # Remote(p).size)

\* a traversal ended with a local file as long as the remote size reports, of
\* other content than the remote file delivers, and not in the WorkList
C3_Witness ==
    /\ TraversalDone
    /\ \E p \in RPaths : /\ p # << >> /\ Remote(p).kind = "file"
                         /\ Walkable(Parent(p)) /\ Last(p) \in Names
                         /\ Last(p) \notin ExcludedNames
                         /\ Local0(p).kind = "file"
                         /\ Remote(p).size = Len(Local0(p).data)
                         /\ Remote(p).size > 0
                         /\ Local0(p).data[1] # RemoteByte(p, 1)
                         /\ ~InWorkList(p, p)

\* C4: when the run returns Ok, every pair of the WorkList was given to
\* copy_file and has ended, and every pair whose copy did not fail has at its
\* local path a file holding what its reads returned, whichever pairs failed.
C4_FailuresIsolated ==
    /\ \A i \in 1..Len(paths) :
           tasks[i].at = "done" => Local(paths[i].local_path) = LFile(tasks[i].rd)
    /\ RunOk =>
           \A i \in 1..Len(paths) : CopiesIn(paths[i], copy_calls) >= 1 /\ Final(i)

\* a run ended Ok with one copy failed and another that copied data
C4_Witness ==
    /\ RunOk
    /\ \E i, j \in 1..Len(paths) :
        /\ tasks[i].at = "failed"
        /\ tasks[j].at = "done" /\ tasks[j].rd # << >>
        /\ Local(paths[j].local_path) = LFile(tasks[j].rd)

\* C5: when a directory cannot be created or listed, the run returns that
\* error, copy_file is never called and no local file is created or changed.
C5_FatalErrorNoCopy ==
    result \in {"ErrCreateDir", "ErrReadDir"} =>
        /\ pc = "returned"
        /\ copy_calls = EmptyBag
        /\ \A i \in 1..Len(tasks) : tasks[i].at = "pending"
        /\ \A p \in LPaths :
               (Local(p).kind = "file" \/ Local0(p).kind = "file") => Local(p) = Local0(p)

\* the listing of a subdirectory failed after a pair was put in the WorkList
C5_Witness ==
    /\ result = "ErrReadDir"
    /\ paths # << >>
    /\ \E d \in readdir_calls : d # << >>

C7_DirectoriesMirrored ==
    TraversalDone =>
        \A d \in RPaths :
            (Remote(d).kind = "dir" /\ ThroughNonExcluded(d)) => Local(d).kind = "dir"

\* C7 amended: the same for the directories reachable through non-excluded
\* directories whose names can be extracted.
C7_NamedDirectoriesMirrored ==
    TraversalDone =>
        \A d \in RPaths :
            (Remote(d).kind = "dir" /\ Walkable(d)) => Local(d).kind = "dir"

\* a traversal ended that created a nested local directory below a local
\* directory that was there before the run
C7_Witness ==
    /\ TraversalDone
    /\ \E d \in RPaths : /\ Len(d) = MaxDepth /\ Remote(d).kind = "dir" /\ Walkable(d)
                         /\ Local0(Parent(d)).kind = "dir"
                         /\ Local0(d).kind = "none"
                         /\ Local(d).kind = "dir"

\* C8: when the local root does not exist, the run returns an error at once:
\* no remote directory is listed, nothing is created locally, the WorkList
\* stays empty and copy_file is not called.
C8_MissingLocalRoot ==
    Local0(<< >>).kind = "none" =>
        /\ pc \in {"start", "returned"}
        /\ pc = "returned" => result = "ErrNoLocalRoot"
        /\ stack = << >>
        /\ readdir_calls = {}
        /\ local = local0
        /\ paths = << >>
        /\ copy_calls = EmptyBag

\* the run returned the error of the missing local root, the remote root
\* holding entries
C8_Witness ==
    /\ pc = "returned" /\ result = "ErrNoLocalRoot"
    /\ Local(<< >>).kind = "none"
    /\ Listing(<< >>) # {}

\* C9: nothing that was in the local tree when the run started is deleted or
\* turned into another kind of entry, and a local file that differs from the
\* start of the run is the local_path of a pair of the WorkList.
C9_OnlyWorkListFilesChange ==
    \A p \in LPaths :
        /\ Local0(p).kind # "none" => Local(p).kind = Local0(p).kind
        /\ (Local(p).kind = "file" /\ Local(p) # Local0(p)) =>
               \E i \in 1..Len(paths) : paths[i].local_path = p /\ tasks[i].at # "pending"

\* a run ended Ok that overwrote one local file and left alone a local file
\* that has no remote counterpart
C9_Witness ==
    /\ RunOk
    /\ \E p, q \in LPaths :
        /\ Local0(p).kind = "file" /\ Local(p) # Local0(p)
        /\ Local0(q).kind = "file" /\ q \notin DOMAIN remote /\ Local(q) = Local0(q)

\* C10: copy_file is called at most once for a pair, and only for pairs of the
\* WorkList; a failed copy is printed once and its pair is not tried again;
\* when the run returns Ok every pair was given to copy_file exactly once.
C10_CopiedExactlyOnce ==
    /\ \A x \in BagToSet(copy_calls) :
           CopiesIn(x, copy_calls) = 1 /\ \E i \in 1..Len(paths) : paths[i] = x
    /\ \A x \in BagToSet(copy_errors) :
           /\ CopiesIn(x, copy_errors) = 1
           /\ \E i \in 1..Len(paths) : paths[i] = x /\ tasks[i].at = "failed"
    /\ \A i \in 1..Len(paths) :
           /\ tasks[i].at = "failed" => CopiesIn(paths[i], copy_errors) = 1
           /\ tasks[i].at # "pending" => CopiesIn(paths[i], copy_calls) = 1
           /\ RunOk => CopiesIn(paths[i], copy_calls) = 1

\* a run ended Ok after the copy of its first pair failed in a read or a
\* write and the copy of its second pair succeeded
C10_Witness ==
    /\ RunOk
    /\ Len(paths) = 2
    /\ tasks[1].at = "failed" /\ tasks[1].rd # << >>
    /\ tasks[2].at = "done"
    /\ CopiesIn(paths[1], copy_errors) = 1
    /\ CopiesIn(paths[2], copy_errors) = 0

\* the pairs a traversal of the remote tree is to find: the files with an
\* extractable, not excluded name and a reported size, in the directories the
\* walk descends into, that are missing locally or of another length
ExpectedPairs ==
    {Pair(p, p) : p \in {q \in RPaths :
        /\ q # << >> /\ Remote(q).kind = "file"
        /\ Walkable(Parent(q))
        /\ Last(q) # BadName /\ Last(q) \notin ExcludedNames
        /\ Remote(q).size # NoSize
        /\ \/ Local0(q).kind = "none"
           \/ Local0(q).kind = "file" /\ Len(Local0(q).data) # Remote(q).size
           \/ Local0(q).kind = "dir" /\ DirLen # Remote(q).size}}

\* the entries the loop of find_paths skips: no name, or a file without size
Skipped(path) ==
    \/ Last(path) = BadName
    \/ Last(path) \notin ExcludedNames /\ Remote(path) = RFile(NoSize)

\* this step of the innermost for loop takes path from the listing
Takes(path) ==
    /\ InFrame("loop") /\ path \in Top.todo
    /\ pc' = "find_paths" /\ Len(stack') = Len(stack)
    /\ path \notin stack'[Len(stack')].todo

\* this step carries an error out of find_paths
Aborts == pc = "find_paths" /\ pc' = "returned"

\* C11: an entry without an extractable name, and a non-excluded file without
\* a reported size, is in no pair of the WorkList; the step that skips it
\* changes nothing but the place of the loop in the listing; an error leaves
\* find_paths only from create_dir_all, from readdir or from the check of an
\* existing local path; and a traversal that ends has found exactly the pairs
\* of the other entries.
C11_SkippedWithoutEffect ==
    /\ [](\A i \in 1..Len(paths) :
              /\ ~Skipped(paths[i].remote_path)
              /\ \A k \in 1..Len(paths[i].remote_path) :
                     paths[i].remote_path[k] # BadName)
    /\ [](TraversalDone => {paths[i] : i \in 1..Len(paths)} = ExpectedPairs)
    /\ [][\A path \in RPaths \ {<< >>} :
              (Skipped(path) /\ Takes(path)) =>
                  /\ stack' = SetTop([Top EXCEPT !.todo = @ \ {path}])
                  /\ UNCHANGED <<local, paths, tasks, result, readdir_calls>>]_vars
    /\ [][Aborts =>
              \/ InFrame("create_dir") /\ result' = "ErrCreateDir"
              \/ InFrame("readdir") /\ result' = "ErrReadDir"
              \/ /\ InFrame("loop") /\ result' = "ErrLocalFile"
                 /\ \E path \in Top.todo :
                        ~Skipped(path) /\ Remote(path).kind = "file" /\ Local(path).kind # "none"]_vars

\* a traversal ended that met, in one listing, a file without a reported size
\* and a file it put in the WorkList
C11_Witness ==
    /\ TraversalDone
    /\ \E p, q \in RPaths :
        /\ p # << >> /\ q # << >> /\ Parent(p) = Parent(q)
        /\ Last(p) \in Names /\ Last(p) \notin ExcludedNames /\ Remote(p) = RFile(NoSize)
        /\ InWorkList(q, q)
        /\ Parent(p) \in readdir_calls

\* a closure call of for_each has started: copy_file was called
Started == copy_calls # EmptyBag \/ \E i \in 1..Len(tasks) : tasks[i].at # "pending"

\* the local directories
LocalDirs == {p \in DOMAIN local : local[p].kind = "dir"}

\* C12: copy_file is called only after find_paths has returned for the whole
\* remote tree; while find_paths runs no local file is created or changed; and
\* once a copy has started no directory is created, no remote directory is
\* listed and the WorkList does not change.
C12_TraversalBeforeTransfer ==
    /\ [](Started => (pc \in {"transfer", "returned"} /\ stack = << >>))
    /\ [](pc \in {"start", "find_paths"} =>
              \A p \in LPaths :
                  (Local(p).kind = "file" \/ Local0(p).kind = "file") => Local(p) = Local0(p))
    /\ [][Started => UNCHANGED <<paths, readdir_calls, LocalDirs>>]_vars

\* bytes of a file of a subdirectory are being transferred, into a local
\* directory the traversal created
C12_Witness ==
    /\ pc = "transfer"
    /\ \E i \in 1..Len(tasks) :
        /\ tasks[i].rd # << >>
        /\ Len(paths[i].remote_path) = MaxDepth
        /\ Parent(paths[i].remote_path) \in readdir_calls
        /\ Local0(Parent(paths[i].local_path)).kind = "none"
        /\ Local(Parent(paths[i].local_path)).kind = "dir"

\* the worker threads of the pool keep running: a closure call that can take a
\* step takes one, and for_each returns once every call has returned
Fairness ==
    /\ \A i \in 1..MaxEntries : WF_vars(CopyFile(i))
    /\ WF_vars(TransferEnd)

SpecFair == Init /\ [][Next]_vars /\ Fairness

\* C13: once the transfer has started, every pair of the WorkList reaches a
\* final outcome and sync_local_directory returns Ok.
C13_TransferCompletes ==
    (pc = "transfer") ~> (RunOk /\ \A i \in 1..Len(tasks) : Final(i))

\* a run returned Ok after every one of its copies failed
C13_Witness ==
    /\ RunOk
    /\ Len(tasks) = MaxEntries
    /\ \A i \in 1..Len(tasks) : tasks[i].at = "failed"

\* s is a prefix of t
IsPrefixOf(s, t) == Len(s) <= Len(t) /\ SubSeq(t, 1, Len(s)) = s

\* what the closure call for paths[i] alone has made of its local path
OwnOutcome(i) ==
    LET here == Local(paths[i].local_path)
        before == Local0(paths[i].local_path)
        rd == tasks[i].rd
    IN  CASE tasks[i].at \in {"pending", "opened"} -> here = before
          [] tasks[i].at \in {"reading", "done"} -> here = LFile(rd)
          [] tasks[i].at = "writing" ->
                 here = LFile(SubSeq(rd, 1, Len(rd) - Len(tasks[i].buf)))
          [] tasks[i].at = "failed" ->
                 \/ here = before
                 \/ here.kind = "file" /\ IsPrefixOf(here.data, rd)

\* C14: no two pairs of the WorkList have the same local_path; a step of the
\* transfer that changes a local file is a step of the one closure call whose
\* pair has that local_path; and what is at the local path of a pair is, in
\* every state of every interleaving, what the closure call of that pair alone
\* has read and written.
C14_DisjointLocalPaths ==
    /\ [](\A i, j \in 1..Len(paths) :
              paths[i].local_path = paths[j].local_path => i = j)
    /\ [](\A i \in 1..Len(paths) : OwnOutcome(i))
    /\ [][\A p \in LPaths :
              (pc = "transfer" /\ p \in DOMAIN local' /\ Local(p) # local'[p]) =>
                  \E i \in 1..Len(paths) :
                      /\ paths[i].local_path = p
                      /\ tasks'[i] # tasks[i]
                      /\ \A j \in 1..Len(paths) : j # i => tasks'[j] = tasks[j]]_vars

\* two closure calls are each about to write a chunk to their local file
C14_Witness ==
    /\ pc = "transfer"
    /\ Len(tasks) = 2
    /\ tasks[1].at = "writing" /\ tasks[2].at = "writing"
    /\ paths[1].local_path # paths[2].local_path
    /\ Parent(paths[1].local_path) = Parent(paths[2].local_path)

\* the first n bytes the remote file at remote_path delivers
RemoteBytes(remote_path, n) == [k \in 1..n |-> RemoteByte(remote_path, k)]

\* C15: when copy_file has returned Ok, the local file holds the bytes the
\* reads returned, in read order, and nothing of what was there before; and a
\* read is issued only when every chunk read before is in the local file.
C15_LocalFileIsWhatWasRead ==
    /\ [](\A i \in 1..Len(tasks) :
              tasks[i].at = "done" =>
                  /\ Local(paths[i].local_path).kind = "file"
                  /\ Local(paths[i].local_path).data = tasks[i].rd
                  /\ tasks[i].rd = RemoteBytes(paths[i].remote_path, Len(tasks[i].rd)))
    /\ [][\A i \in 1..Len(tasks) :
              (Len(tasks') = Len(tasks) /\ tasks'[i].rd # tasks[i].rd) =>
                  /\ tasks[i].buf = << >>
                  /\ Local(paths[i].local_path) = LFile(tasks[i].rd)
                  /\ tasks'[i].rd = tasks[i].rd \o tasks'[i].buf]_vars

\* copy_file returned Ok after it replaced a local file that was not empty by
\* the bytes of more than one read
C15_Witness ==
    \E i \in 1..Len(tasks) :
        /\ tasks[i].at = "done"
        /\ Local0(paths[i].local_path).kind = "file"
        /\ Local0(paths[i].local_path).data # << >>
        /\ Len(tasks[i].rd) = MaxData
        /\ Local(paths[i].local_path) = LFile(tasks[i].rd)

(***************************************************************************)
(* SftpSync::new and the lookup of find_paths on their own: main gives new *)
(* an exclusion list of at most MaxList names out of LookupNames, in any   *)
(* order and with duplicates, or no list.                                  *)
(***************************************************************************)
LookupNames == 1..NumLookupNames

LookupArgs == {NoList} \cup SeqsOver(LookupNames, MaxList)

\* main before SftpSync::new: exclude is the parameter of new
InitLookup ==
    /\ exclude \in LookupArgs
    /\ pc = "main"
    /\ remote = EmptyRemote
    /\ local = EmptyLocal(LDir)
    /\ local0 = local
    /\ result = "none"
    /\ stack = << >>
    /\ paths = << >>
    /\ tasks = << >>
    /\ readdir_calls = {}
    /\ copy_calls = EmptyBag
    /\ copy_errors = EmptyBag
    /\ run = 1
    /\ prev = NoPrev

\* SftpSync::new(sftp, args.exclude, ..)
SftpSyncNew ==
    /\ pc = "main"
    /\ exclude' = New(exclude)
    /\ pc' = "start"
    /\ UNCHANGED <<remote, local, local0, result, stack, paths, tasks,
                   readdir_calls, copy_calls, copy_errors, run, prev>>

NextLookup == SftpSyncNew

SpecLookup == InitLookup /\ [][NextLookup]_vars

\* C16: whatever list SftpSync::new was given, the lookup of find_paths in the
\* list new has stored finds a name exactly when the name is an element of the
\* list given; when no list or the empty list was given it finds no name.
C16_LookupIsMembership ==
    [][(pc = "main" /\ pc' = "start") =>
           \A file_name \in LookupNames :
               IsExcluded(file_name)' <=>
                   (exclude # NoList /\ \E k \in 1..Len(exclude) : exclude[k] = file_name)]_vars

\* new was given a list of MaxList names, out of order and with a name twice,
\* that lacks a name
C16_Witness ==
    /\ pc = "start"
    /\ Len(exclude) = MaxList
    /\ \E k \in 1..(Len(exclude) - 1) : exclude[k] = exclude[k + 1]
    /\ \E k \in 1..(Len(exclude) - 1) : exclude[k] < exclude[k + 1]
    /\ \E file_name \in LookupNames : file_name \notin ExcludedNames

\* this step ends the closure call for paths[i] with an error, from at
FailsFrom(i, at) ==
    /\ pc = "transfer" /\ Len(tasks') = Len(tasks)
    /\ tasks[i].at = at /\ tasks'[i].at = "failed"

\* the local file of a pair is as it was when the run started until the
\* remote file is open
CreatedAfterOpen ==
    \A i \in 1..Len(tasks) :
        tasks[i].at \in {"pending", "opened"} =>
            Local(paths[i].local_path) = Local0(paths[i].local_path)

\* a failed open of the remote file and a failed File::create leave the local
\* file as it was, a failed read leaves it holding the chunks written, and
\* nothing is removed or restored once copy_file has returned the error
FailureLeaves(i) ==
    /\ (FailsFrom(i, "pending") \/ FailsFrom(i, "opened")) =>
           /\ local' = local
           /\ Local(paths[i].local_path) = Local0(paths[i].local_path)
    /\ FailsFrom(i, "reading") =>
           /\ local' = local
           /\ Local(paths[i].local_path) = LFile(tasks[i].rd)
    /\ (tasks[i].at = "failed" /\ Len(tasks') = Len(tasks)) =>
           /\ tasks'[i] = tasks[i]
           /\ At(local', paths[i].local_path, LNone) = Local(paths[i].local_path)

\* C17 as stated: copy_file creates the local file only after it has opened
\* the remote file, a failed open leaves the local file as it was, and a
\* failed read or write leaves the local file holding the chunks written
\* before, and no more.
C17_WholeChunksRemain ==
    /\ []CreatedAfterOpen
    /\ [][\A i \in 1..Len(tasks) :
              /\ FailureLeaves(i)
              /\ FailsFrom(i, "writing") =>
                     /\ local' = local
                     /\ Local(paths[i].local_path).data \o tasks[i].buf = tasks[i].rd]_vars

\* C17 amended: the same, but a failed write leaves the local file holding the
\* chunks written before and the part of the last chunk that write_all wrote
\* before the error.
C17_WrittenBytesRemain ==
    /\ []CreatedAfterOpen
    /\ [][\A i \in 1..Len(tasks) :
              /\ FailureLeaves(i)
              /\ FailsFrom(i, "writing") =>
                     LET before == Local(paths[i].local_path).data
                         after == local'[paths[i].local_path]
                     IN  /\ after.kind = "file"
                         /\ IsPrefixOf(before, after.data)
                         /\ IsPrefixOf(after.data, tasks[i].rd)
                         /\ before \o tasks[i].buf = tasks[i].rd]_vars

\* one copy failed at the open of the remote file and left its local file as
\* it was, another failed after it had replaced its local file by a part of
\* what it read
C17_Witness ==
    /\ RunOk
    /\ \E i, j \in 1..Len(tasks) :
        /\ tasks[i].at = "failed" /\ tasks[i].rd = << >>
        /\ Local0(paths[i].local_path).kind = "file"
        /\ Local(paths[i].local_path) = Local0(paths[i].local_path)
        /\ tasks[j].at = "failed" /\ Len(tasks[j].rd) = MaxData
        /\ Local0(paths[j].local_path).kind = "file"
        /\ Local(paths[j].local_path).data # << >>
        /\ Len(Local(paths[j].local_path).data) < Len(tasks[j].rd)
        /\ Local(paths[j].local_path).data[1] = RemoteByte(paths[j].remote_path, 1)

\* C18: the error of File::open or of metadata on an existing local path is
\* returned by find_paths at once, from whatever depth: the step that meets it
\* ends the traversal and the run, the entry is not passed over, and no copy
\* is attempted and no local file changed.
C18_LocalFileErrorIsFatal ==
    /\ [](result = "ErrLocalFile" =>
              /\ pc = "returned" /\ stack = << >>
              /\ copy_calls = EmptyBag /\ copy_errors = EmptyBag
              /\ \A i \in 1..Len(tasks) : tasks[i].at = "pending"
              /\ \A p \in LPaths :
                     (Local(p).kind = "file" \/ Local0(p).kind = "file") => Local(p) = Local0(p))
    /\ [][(result # "ErrLocalFile" /\ result' = "ErrLocalFile") =>
              /\ InFrame("loop")
              /\ \E path \in Top.todo :
                     /\ Last(path) # BadName /\ Last(path) \notin ExcludedNames
                     /\ Remote(path).kind = "file" /\ Remote(path).size # NoSize
                     /\ Local(Join(Top.local_directory, FileName(path))).kind # "none"
              /\ UNCHANGED <<local, paths, tasks, readdir_calls>>]_vars

\* the check of an existing local file failed in the find_paths call of a
\* subdirectory and ended the run
C18_Witness ==
    /\ result = "ErrLocalFile"
    /\ pc = "returned"
    /\ \E p \in RPaths :
        /\ Len(p) = MaxDepth /\ Remote(p).kind = "file" /\ Remote(p).size # NoSize
        /\ Local(p).kind = "file"
        /\ ~InWorkList(p, p)
        /\ Parent(p) \in readdir_calls

====
